---- MODULE Spec2Model ----
(***************************************************************************)
(* Battery Life Tester (battery_monitor.py): the CPULoader that spawns     *)
(* busy-loop worker processes, the BatteryMonitor window with its toggle   *)
(* button and spinbox, the 1 s sampler tick (update_data), the 15 s        *)
(* logging tick (log_data) and the CSV log file.                           *)
(*                                                                         *)
(* Texts are sequences of tokens (one-character strings and fixed words),  *)
(* so that formatting is computed digit by digit.  Floats (battery         *)
(* percent, temperature) are integers counting thousandths.                *)
(*                                                                         *)
(* Worker processes are modelled under the fork start method: a child      *)
(* starts with a private copy of the CPULoader object as it was when       *)
(* Process.start() ran, and never sees later writes of the UI process.     *)
(***************************************************************************)
EXTENDS Integers, Sequences, FiniteSets, TLC

VARIABLES
    running,               \* CPULoader.running in the UI process
    processes,             \* CPULoader.processes: the tracked worker handles
    proc,                  \* the OS view of every worker process slot
    start_button,          \* text of the toggle button
    spin_value,            \* cores_spinbox.value()
    spin_enabled,          \* cores_spinbox.isEnabled()
    status_label,
    temp_label,
    fan_label,
    battery_label,
    time_remaining_label,
    times,                 \* BatteryMonitor.times
    battery_levels,        \* BatteryMonitor.battery_levels
    csv_file,              \* battery_log.csv on disk
    phase,                 \* the UI process: "running", "joining", "exited"
    last                   \* the step that ran last, its inputs, its outcome

loaderVars == <<running, processes, proc>>
uiVars == <<start_button, spin_value, spin_enabled, status_label>>
samplerVars == <<temp_label, fan_label, battery_label, time_remaining_label,
                 times, battery_levels>>
vars == <<running, processes, proc, start_button, spin_value, spin_enabled,
          status_label, temp_label, fan_label, battery_label,
          time_remaining_label, times, battery_levels, csv_file, phase, last>>

(***************************************************************************)
(* Bounds                                                                  *)
(***************************************************************************)
CpuCount == 2        \* multiprocessing.cpu_count() of the machine
MaxProcs == 4        \* worker processes that exist at the same time
MaxSamples == 2      \* sampler ticks that append to the series
MaxRows == 2         \* data rows appended to the CSV file

Slots == 1..MaxProcs

(***************************************************************************)
(* psutil's sentinels for battery.secsleft                                 *)
(***************************************************************************)
POWER_TIME_UNKNOWN == -1
POWER_TIME_UNLIMITED == -2

(***************************************************************************)
(* Label prefixes and fixed texts                                          *)
(***************************************************************************)
STATUS_PREFIX == "Status: "
TEMP_PREFIX == "CPU Temperature: "
FAN_PREFIX == "Fan Speed: "
BATTERY_PREFIX == "Battery: "
TIME_REMAINING_PREFIX == "Time: "
NA == "N/A"
DEG_C == "degC"
CsvHeader == <<"Time", "Battery Percentage">>

(***************************************************************************)
(* Number formatting                                                       *)
(***************************************************************************)
Digit(d) == <<"0", "1", "2", "3", "4", "5", "6", "7", "8", "9">>[d + 1]

RECURSIVE DecStr(_)
\* str(n) / f"{n}" of an integer n >= 0
DecStr(n) == IF n < 10 THEN <<Digit(n)>> ELSE DecStr(n \div 10) \o <<Digit(n % 10)>>

\* f"{n:02d}" of an integer n >= 0: at least two digits, zero padded
Pad2(n) == IF n < 10 THEN <<"0", Digit(n)>> ELSE DecStr(n)

\* divmod(a, b) for b > 0
divmod(a, b) == <<a \div b, a % b>>

\* f"{x:.1f}" of a float x >= 0 given in thousandths; the readings used are
\* never halfway between two tenths, where the binary float would decide
FmtOneDecimal(x) ==
    LET tenths == (x + 50) \div 100
    IN  DecStr(tenths \div 10) \o <<".", Digit(tenths % 10)>>

RECURSIVE StripZeros(_)
StripZeros(ds) ==
    IF Len(ds) > 1 /\ ds[Len(ds)] = "0" THEN StripZeros(SubSeq(ds, 1, Len(ds) - 1))
    ELSE ds

\* str(x) of a float x >= 0 given in thousandths: every digit kept
FloatRepr(x) ==
    LET f == x % 1000
    IN  DecStr(x \div 1000) \o <<".">>
          \o StripZeros(<<Digit(f \div 100), Digit((f \div 10) % 10), Digit(f % 10)>>)

\* datetime.strftime('%H:%M:%S') of a wall clock given in seconds since midnight
Strftime(now) ==
    Pad2(now \div 3600) \o <<":">> \o Pad2((now \div 60) % 60) \o <<":">> \o Pad2(now % 60)

(***************************************************************************)
(* Sensor readings as psutil returns them.  An Optional is a record whose  *)
(* "none" field says that psutil returned None; a dict of sensor groups is *)
(* the sequence of its values in iteration order; an entry without a       *)
(* usable .current has has_current = FALSE.                                *)
(***************************************************************************)
NoSensors == [none |-> TRUE, groups |-> <<>>]
Sensors(gs) == [none |-> FALSE, groups |-> gs]
Entry(c) == [has_current |-> TRUE, current |-> c]
BadEntry == [has_current |-> FALSE, current |-> 0]

NoBattery == [none |-> TRUE, percent |-> 0, secsleft |-> 0, power_plugged |-> FALSE]
Battery(p, s, plugged) ==
    [none |-> FALSE, percent |-> p, secsleft |-> s, power_plugged |-> plugged]

\* Python truthiness of Optional[Dict]: None and {} are false
Truthy(d) == ~d.none /\ d.groups # <<>>

TempOk == Sensors(<< <<Entry(45123)>> >>)
TempBad == Sensors(<< <<BadEntry>> >>)
TempReadings ==
    {NoSensors, Sensors(<<>>), Sensors(<< <<>> >>), TempOk, TempBad}
FanOk == Sensors(<< <<Entry(2400)>> >>)
FanReadings ==
    {NoSensors, Sensors(<<>>), Sensors(<< <<>> >>), FanOk, Sensors(<< <<BadEntry>> >>)}
Percents == {73456, 100000}
SecsLeft == {POWER_TIME_UNLIMITED, POWER_TIME_UNKNOWN, 0, 59, 3599, 3725, 36000}
BatteryReadings ==
    {NoBattery} \cup {Battery(p, s, g) : p \in Percents, s \in SecsLeft, g \in BOOLEAN}
Clock == {45296, 86399}

Snapshot(t, f, b, n) == [temps |-> t, fans |-> f, battery |-> b, now |-> n]
NoSnapshot == Snapshot(NoSensors, NoSensors, NoBattery, 0)

\* the step that ran last, what it was given and how it ended; call is the
\* CPULoader method toggle_load called, or the state a direct call was made in
Ran(op, call, snap, raised) == [op |-> op, call |-> call, snap |-> snap, raised |-> raised]

(***************************************************************************)
(* Worker processes                                                        *)
(***************************************************************************)
\* a slot without a process
Gone == [st |-> "none", flag |-> FALSE]
\* a freshly forked worker: its copy of self.running is the value at the fork
Forked(flag) == [st |-> "alive", flag |-> flag]

\* a process runs until it has exited or a delivered signal has killed it
IsAlive(p) == proc[p].st \in {"alive", "signalled"}
FreeSlots == {p \in Slots : proc[p].st = "none"}

RECURSIVE PickSlots(_, _)
\* the n lowest slots of the set free, in order
PickSlots(free, n) ==
    IF n = 0 \/ free = {} THEN <<>>
    ELSE LET m == CHOOSE x \in free : \A y \in free : x <= y
         IN  <<m>> \o PickSlots(free \ {m}, n - 1)

Range(s) == {s[i] : i \in 1..Len(s)}

\* Process.terminate(): SIGTERM is sent and the call returns without waiting
Terminate(w) == IF w.st = "alive" THEN [w EXCEPT !.st = "signalled"] ELSE w

(***************************************************************************)
(* CPULoader                                                               *)
(***************************************************************************)
\* one iteration of the worker's loop, in the worker process p
cpu_load(p) ==
    /\ IsAlive(p)
    /\ proc' = [proc EXCEPT ![p] =
                   IF ~proc[p].flag THEN Gone      \* break: the process ends
                   ELSE proc[p]]                   \* pass
    /\ UNCHANGED <<running, processes>>

start(num_cores) ==
    LET new == PickSlots(FreeSlots, num_cores)
    IN  /\ Len(new) = num_cores
        /\ running' = TRUE
        /\ proc' = [p \in Slots |-> IF p \in Range(new) THEN Forked(running') ELSE proc[p]]
        /\ processes' = processes \o new

\* stop without processes.clear()
stop_NoClear ==
    /\ running' = FALSE
    /\ proc' = [p \in Slots |-> IF p \in Range(processes) THEN Terminate(proc[p]) ELSE proc[p]]
    /\ processes' = processes

stop ==
    /\ running' = FALSE
    /\ proc' = [p \in Slots |-> IF p \in Range(processes) THEN Terminate(proc[p]) ELSE proc[p]]
    /\ processes' = <<>>

\* the kernel delivers a pending SIGTERM: the worker dies
SignalDelivered(p) ==
    /\ proc[p].st = "signalled"
    /\ proc' = [proc EXCEPT ![p] = Gone]
    /\ UNCHANGED <<running, processes>>

(***************************************************************************)
(* BatteryMonitor: the controls                                            *)
(***************************************************************************)
toggle_load ==
    /\ phase = "running"
    /\ IF start_button = "Start Load"
       THEN /\ start(spin_value)
            /\ start_button' = "Stop Load"
            /\ spin_enabled' = FALSE
            /\ status_label' = <<STATUS_PREFIX, "Loading CPU...">>
            /\ last' = Ran("toggle_load", "start", NoSnapshot, FALSE)
       ELSE /\ stop
            /\ start_button' = "Start Load"
            /\ spin_enabled' = TRUE
            /\ status_label' = <<STATUS_PREFIX, "Idle">>
            /\ last' = Ran("toggle_load", "stop", NoSnapshot, FALSE)
    /\ UNCHANGED <<spin_value, samplerVars, csv_file, phase>>

\* the user edits the spinbox, whose range is 1..cpu_count; a disabled
\* spinbox takes no input
SpinboxChange(v) ==
    /\ phase = "running"
    /\ spin_enabled
    /\ v \in 1..CpuCount
    /\ v # spin_value
    /\ spin_value' = v
    /\ last' = Ran("valueChanged", "-", NoSnapshot, FALSE)
    /\ UNCHANGED <<loaderVars, start_button, spin_enabled, status_label,
                   samplerVars, csv_file, phase>>

(***************************************************************************)
(* BatteryMonitor: the sampler tick                                        *)
(***************************************************************************)
Label(prefix, text) == <<prefix>> \o text

\* the temperature block: no try/except, so reading .current of an entry
\* that has none raises out of update_data
TempLookup(temps) ==
    IF Truthy(temps)
    THEN LET first_sensor_list == temps.groups[1]
         IN  IF first_sensor_list # <<>>
             THEN IF first_sensor_list[1].has_current
                  THEN [raised |-> FALSE,
                        text |-> FmtOneDecimal(first_sensor_list[1].current) \o <<DEG_C>>]
                  ELSE [raised |-> TRUE, text |-> <<>>]
             ELSE [raised |-> FALSE, text |-> <<NA>>]
    ELSE [raised |-> FALSE, text |-> <<NA>>]

\* the fan block: StopIteration, IndexError and AttributeError are caught
FanText(fans) ==
    IF Truthy(fans)
    THEN LET first_fan_list == fans.groups[1]
         IN  IF first_fan_list # <<>>
             THEN IF first_fan_list[1].has_current
                  THEN DecStr(first_fan_list[1].current) \o <<" RPM">>
                  ELSE <<NA>>
             ELSE <<NA>>
    ELSE <<NA>>

\* TimeRemainingStr with the minutes not zero padded (f"{hh}:{mm} remaining")
TimeRemainingStr_Unpadded(battery) ==
    IF battery.power_plugged THEN <<"Charging">>
    ELSE IF battery.secsleft = POWER_TIME_UNLIMITED THEN <<"Unlimited">>
    ELSE IF battery.secsleft = POWER_TIME_UNKNOWN THEN <<"Calculating...">>
    ELSE LET ms == divmod(battery.secsleft, 60)
             hm == divmod(ms[1], 60)
         IN  DecStr(hm[1]) \o <<":">> \o DecStr(hm[2]) \o <<" remaining">>

TimeRemainingStr(battery) ==
    IF battery.power_plugged THEN <<"Charging">>
    ELSE IF battery.secsleft = POWER_TIME_UNLIMITED THEN <<"Unlimited">>
    ELSE IF battery.secsleft = POWER_TIME_UNKNOWN THEN <<"Calculating...">>
    ELSE LET ms == divmod(battery.secsleft, 60)
             hm == divmod(ms[1], 60)
         IN  DecStr(hm[1]) \o <<":">> \o Pad2(hm[2]) \o <<" remaining">>

update_data(temps, fans, battery, now) ==
    LET t == TempLookup(temps)
    IN  /\ phase = "running"
        /\ t.raised \/ battery.none \/ Len(times) < MaxSamples
        /\ last' = Ran("update_data", "-", Snapshot(temps, fans, battery, now), t.raised)
        /\ IF t.raised
           THEN UNCHANGED samplerVars
           ELSE /\ temp_label' = Label(TEMP_PREFIX, t.text)
                /\ fan_label' = Label(FAN_PREFIX, FanText(fans))
                /\ IF ~battery.none
                   THEN /\ battery_label' =
                              Label(BATTERY_PREFIX, FmtOneDecimal(battery.percent) \o <<"%">>)
                        /\ time_remaining_label' =
                              Label(TIME_REMAINING_PREFIX, TimeRemainingStr(battery))
                        /\ times' = Append(times, Strftime(now))
                        /\ battery_levels' = Append(battery_levels, battery.percent)
                   ELSE /\ battery_label' = Label(BATTERY_PREFIX, <<NA>>)
                        /\ time_remaining_label' = Label(TIME_REMAINING_PREFIX, <<NA>>)
                        /\ UNCHANGED <<times, battery_levels>>
        /\ UNCHANGED <<loaderVars, uiVars, csv_file, phase>>

(***************************************************************************)
(* BatteryMonitor: the CSV log                                             *)
(***************************************************************************)
NoFile == [exists |-> FALSE, rows |-> <<>>]

\* open(path, 'w') and one writerow
WriteNew(row) == [exists |-> TRUE, rows |-> <<row>>]
\* open(path, 'a') and one writerow
AppendRow(file, row) == [exists |-> TRUE, rows |-> Append(file.rows, row)]

\* SetupCsv without the exists() check: the header is written on every start
SetupCsv_Always(file) == WriteNew(CsvHeader)

\* the CSV set-up at the end of __init__
SetupCsv(file) == IF ~file.exists THEN WriteNew(CsvHeader) ELSE file

log_data(battery, now) ==
    /\ phase = "running"
    /\ battery.none \/ Len(csv_file.rows) <= MaxRows
    /\ csv_file' = IF ~battery.none
                   THEN AppendRow(csv_file, <<Strftime(now), FloatRepr(battery.percent)>>)
                   ELSE csv_file
    /\ last' = Ran("log_data", "-", Snapshot(NoSensors, NoSensors, battery, now), FALSE)
    /\ UNCHANGED <<loaderVars, uiVars, samplerVars, phase>>

(***************************************************************************)
(* The life of the UI process                                              *)
(***************************************************************************)
\* BatteryMonitor.__init__ and setup_ui, run against the file on disk
Constructed(file) ==
    /\ running = FALSE
    /\ processes = <<>>
    /\ proc = [p \in Slots |-> Gone]
    /\ start_button = "Start Load"
    /\ spin_value = 1
    /\ spin_enabled = TRUE
    /\ status_label = Label(STATUS_PREFIX, <<"Idle">>)
    /\ temp_label = Label(TEMP_PREFIX, <<NA>>)
    /\ fan_label = Label(FAN_PREFIX, <<NA>>)
    /\ battery_label = Label(BATTERY_PREFIX, <<NA>>)
    /\ time_remaining_label = Label(TIME_REMAINING_PREFIX, <<NA>>)
    /\ times = <<>>
    /\ battery_levels = <<>>
    /\ csv_file = SetupCsv(file)
    /\ phase = "running"
    /\ last = Ran("__init__", "-", NoSnapshot, FALSE)

\* the first run, in a directory without battery_log.csv
Init == Constructed(NoFile)

\* the window is closed: app.exec() returns and sys.exit() runs the exit
\* handlers, where multiprocessing joins every child that is not a daemon;
\* nothing calls stop()
Exit ==
    /\ phase = "running"
    /\ phase' = "joining"
    /\ last' = Ran("exit", "-", NoSnapshot, FALSE)
    /\ UNCHANGED <<loaderVars, uiVars, samplerVars, csv_file>>

\* the join returns once no child is left
JoinDone ==
    /\ phase = "joining"
    /\ \A p \in Slots : ~IsAlive(p)
    /\ phase' = "exited"
    /\ last' = Ran("joined", "-", NoSnapshot, FALSE)
    /\ UNCHANGED <<loaderVars, uiVars, samplerVars, csv_file>>

\* the program is run again in the same directory
Restart ==
    /\ phase = "exited"
    /\ running' = FALSE
    /\ processes' = <<>>
    /\ proc' = [p \in Slots |-> Gone]
    /\ start_button' = "Start Load"
    /\ spin_value' = 1
    /\ spin_enabled' = TRUE
    /\ status_label' = Label(STATUS_PREFIX, <<"Idle">>)
    /\ temp_label' = Label(TEMP_PREFIX, <<NA>>)
    /\ fan_label' = Label(FAN_PREFIX, <<NA>>)
    /\ battery_label' = Label(BATTERY_PREFIX, <<NA>>)
    /\ time_remaining_label' = Label(TIME_REMAINING_PREFIX, <<NA>>)
    /\ times' = <<>>
    /\ battery_levels' = <<>>
    /\ csv_file' = SetupCsv(csv_file)
    /\ phase' = "running"
    /\ last' = Ran("__init__", "-", NoSnapshot, FALSE)

WorkerLoop(p) ==
    /\ cpu_load(p)
    /\ last' = Ran("cpu_load", "-", NoSnapshot, FALSE)
    /\ UNCHANGED <<uiVars, samplerVars, csv_file, phase>>

WorkerKilled(p) ==
    /\ SignalDelivered(p)
    /\ last' = Ran("SIGTERM", "-", NoSnapshot, FALSE)
    /\ UNCHANGED <<uiVars, samplerVars, csv_file, phase>>

(***************************************************************************)
(* The whole program                                                       *)
(***************************************************************************)
AppSnapshots ==
    {Snapshot(TempOk, FanOk, NoBattery, 45296),
     Snapshot(TempOk, FanOk, Battery(73456, 3725, FALSE), 45296),
     Snapshot(TempBad, FanOk, Battery(73456, 3725, FALSE), 45296)}
AppLogBatteries == {NoBattery, Battery(73456, 3725, FALSE)}

Next ==
    \/ toggle_load
    \/ \E v \in 1..CpuCount : SpinboxChange(v)
    \/ \E s \in AppSnapshots : update_data(s.temps, s.fans, s.battery, s.now)
    \/ \E b \in AppLogBatteries : log_data(b, 45296)
    \/ \E p \in Slots : WorkerLoop(p)
    \/ \E p \in Slots : WorkerKilled(p)
    \/ Exit
    \/ JoinDone
    \/ Restart

Spec == Init /\ [][Next]_vars

(***************************************************************************)
(* The sampler alone, over the full range of readings                      *)
(***************************************************************************)
SamplerSnapshots ==
    {Snapshot(t, f, b, 45296) :
        t \in TempReadings, f \in FanReadings,
        b \in {NoBattery, Battery(73456, 3725, FALSE)}}
    \cup {Snapshot(TempOk, FanOk, b, n) : b \in BatteryReadings, n \in Clock}

NextSampler ==
    \E s \in SamplerSnapshots : update_data(s.temps, s.fans, s.battery, s.now)

SpecSampler == Init /\ [][NextSampler]_vars

(***************************************************************************)
(* The CPULoader alone, driven through its methods in any order            *)
(***************************************************************************)
CallStart(n) ==
    /\ start(n)
    /\ last' = Ran("start", IF running THEN "Loading" ELSE "Idle", NoSnapshot, FALSE)
    /\ UNCHANGED <<uiVars, samplerVars, csv_file, phase>>

CallStop ==
    /\ stop
    /\ last' = Ran("stop", IF running THEN "Loading" ELSE "Idle", NoSnapshot, FALSE)
    /\ UNCHANGED <<uiVars, samplerVars, csv_file, phase>>

NextLoader ==
    \/ \E n \in 1..CpuCount : CallStart(n)
    \/ CallStop
    \/ \E p \in Slots : WorkerLoop(p)
    \/ \E p \in Slots : WorkerKilled(p)

SpecLoader == Init /\ [][NextLoader]_vars

(***************************************************************************)
(* The logger alone, across runs of the program in the same directory      *)
(***************************************************************************)
LogBatteries == {NoBattery, Battery(73456, 3725, FALSE), Battery(100000, 0, TRUE)}

NextLogger ==
    \/ \E b \in LogBatteries, n \in Clock : log_data(b, n)
    \/ Exit
    \/ JoinDone
    \/ Restart

SpecLogger == Init /\ [][NextLogger]_vars

(***************************************************************************)
(* Properties                                                              *)
(***************************************************************************)

\* C1: once the stop() that follows a start(n) from Idle has returned, the
\* tracked worker list is empty, running is false and none of the spawned
\* worker processes is still alive.
C1_StopLeavesNoWorkerAlive ==
    (last.op = "toggle_load" /\ last.call = "stop")
        => /\ processes = <<>>
           /\ running = FALSE
           /\ \A p \in Slots : ~IsAlive(p)

\* C2: the stop flag a worker re-checks on every iteration is the flag of the
\* UI process: every worker still running reads the value running has now,
\* so it sees the flag cleared by stop().
C2_WorkersShareStopFlag ==
    \A p \in Slots : IsAlive(p) => proc[p].flag = running

\* C3: once the program has begun to exit, every tracked worker process has
\* been terminated.
C3_ExitTerminatesWorkers ==
    phase # "running" => \A p \in Range(processes) : proc[p].st # "alive"

\* C4: a sampler tick on which the battery is unavailable sets the battery
\* and time-remaining displays to N/A and leaves both series unchanged,
\* whatever the temperature and fan readings of the tick.
C4_NoBatteryShowsNA ==
    [][(last'.op = "update_data" /\ last'.snap.battery.none)
          => /\ battery_label' = <<BATTERY_PREFIX, NA>>
             /\ time_remaining_label' = <<TIME_REMAINING_PREFIX, NA>>
             /\ times' = times
             /\ battery_levels' = battery_levels]_vars

\* C5: a sampler tick on which the battery is available with percent p
\* appends exactly (formatted time of the tick, p) to the two series and
\* changes no earlier entry.
C5_TickAppendsSample ==
    [][(last'.op = "update_data" /\ ~last'.snap.battery.none)
          => /\ times' = Append(times, Strftime(last'.snap.now))
             /\ battery_levels' = Append(battery_levels, last'.snap.battery.percent)
             /\ Len(times') = Len(battery_levels')]_vars

\* the time-remaining text the precedence rule asks for
C6_Expected(b) ==
    IF b.power_plugged THEN <<"Charging">>
    ELSE IF b.secsleft = POWER_TIME_UNLIMITED THEN <<"Unlimited">>
    ELSE IF b.secsleft = POWER_TIME_UNKNOWN THEN <<"Calculating...">>
    ELSE DecStr(b.secsleft \div 3600) \o <<":">>
            \o Pad2((b.secsleft % 3600) \div 60) \o <<" remaining">>

\* C6: whenever a tick with the battery available has formatted the time
\* remaining, the text is "Charging" if plugged, else "Unlimited" for the
\* unlimited sentinel, else "Calculating..." for the unknown sentinel, else
\* "H:MM remaining" with H = s div 3600 and MM = (s mod 3600) div 60 on two
\* digits; 3725 s unplugged gives "1:02 remaining".
C6_TimeRemainingFormat ==
    (last.op = "update_data" /\ ~last.raised /\ ~last.snap.battery.none)
        => /\ time_remaining_label =
                  <<TIME_REMAINING_PREFIX>> \o C6_Expected(last.snap.battery)
           /\ (last.snap.battery.secsleft = 3725 /\ ~last.snap.battery.power_plugged)
                  => time_remaining_label =
                         <<TIME_REMAINING_PREFIX, "1", ":", "0", "2", " remaining">>

C6_Witness ==
    /\ last.op = "update_data"
    /\ ~last.raised
    /\ last.snap.battery = Battery(73456, 3725, FALSE)
    /\ time_remaining_label = <<TIME_REMAINING_PREFIX, "1", ":", "0", "2", " remaining">>

\* the file is one header row followed by data rows
C7_HeaderOnce ==
    /\ csv_file.exists
    /\ Len(csv_file.rows) >= 1
    /\ csv_file.rows[1] = CsvHeader
    /\ \A i \in 2..Len(csv_file.rows) :
          /\ csv_file.rows[i] # CsvHeader
          /\ Len(csv_file.rows[i]) = 2

\* what one step may do to the file
C7_Step ==
    /\ (last'.op = "__init__" /\ csv_file.exists) => csv_file' = csv_file
    /\ (last'.op = "log_data" /\ last'.snap.battery.none) => csv_file' = csv_file
    /\ (last'.op = "log_data" /\ ~last'.snap.battery.none)
          => /\ Len(csv_file'.rows) = Len(csv_file.rows) + 1
             /\ SubSeq(csv_file'.rows, 1, Len(csv_file.rows)) = csv_file.rows
    /\ csv_file.exists
          => /\ csv_file'.exists
             /\ Len(csv_file'.rows) >= Len(csv_file.rows)
             /\ SubSeq(csv_file'.rows, 1, Len(csv_file.rows)) = csv_file.rows

\* C7: the CSV log is append-only with its header written once: an
\* initialization that finds the file leaves it unchanged, a logging tick
\* with the battery available appends exactly one row at the end, a logging
\* tick without battery leaves the file unchanged, and the file is always
\* the header row followed by data rows.
C7_CsvAppendOnly == []C7_HeaderOnce /\ [][C7_Step]_vars

C7_Witness ==
    /\ last.op = "__init__"
    /\ Len(csv_file.rows) = 3

\* the temperature lookup of the tick failed: no data, an empty first
\* group, or a first entry without a usable current value
C8_LookupFails(temps) ==
    \/ ~Truthy(temps)
    \/ temps.groups[1] = <<>>
    \/ ~temps.groups[1][1].has_current

\* C8: a tick whose temperature lookup fails raises nothing, shows N/A as
\* the temperature and still updates the fan and battery displays.
C8_TempFailureIsNA ==
    (last.op = "update_data" /\ C8_LookupFails(last.snap.temps))
        => /\ ~last.raised
           /\ temp_label = <<TEMP_PREFIX, NA>>
           /\ fan_label = <<FAN_PREFIX>> \o FanText(last.snap.fans)
           /\ last.snap.battery.none => battery_label = <<BATTERY_PREFIX, NA>>
           /\ ~last.snap.battery.none
                 => battery_levels[Len(battery_levels)] = last.snap.battery.percent

\* C9: start(n) while Loading and stop() while Idle are no-ops: they leave
\* running, the tracked list and the worker processes as they were.
C9_GuardedTransitions ==
    [][/\ (last'.op = "start" /\ last'.call = "Loading")
             => (running' = running /\ processes' = processes /\ proc' = proc)
       /\ (last'.op = "stop" /\ last'.call = "Idle")
             => (running' = running /\ processes' = processes /\ proc' = proc)]_vars

\* the button, the flag, the spinbox and the tracked list agree
C10_Agree ==
    /\ (start_button = "Stop Load") <=> running
    /\ running <=> ~spin_enabled
    /\ running <=> (processes # <<>>)
    /\ spin_value \in 1..CpuCount
    /\ running => Len(processes) = spin_value
    /\ Cardinality(Range(processes)) = Len(processes)

\* toggle_load calls start from Idle and stop from Loading only
C10_Step ==
    last'.op = "toggle_load"
        => /\ last'.call = "start" => (~running /\ processes = <<>> /\ running')
           /\ last'.call = "stop" => (running /\ processes # <<>> /\ ~running')

====
